---- MODULE Spec2Model ----
(***************************************************************************)
(* Model of the IntaSend Go client: the shared request executor            *)
(* Client.doRequest (http.go), the helpers get/post/postPublic, the error  *)
(* types (errors) and the resource operations that call them.              *)
(*                                                                         *)
(* One call of a resource operation is followed from its entry to its      *)
(* return.  The goroutine's position is pc:                                *)
(*   "start"    before doRequest marshals the body                         *)
(*   "send"     top of a loop iteration, after the backoff wait            *)
(*   "inflight" inside c.httpClient.Do / io.ReadAll                        *)
(*   "select"   time.After has been called, the select is not yet          *)
(*              evaluated                                                  *)
(*   "blocked"  parked in the select, no case was ready                    *)
(*   "done"     doRequest has returned ret                                 *)
(***************************************************************************)
EXTENDS Integers, Sequences, FiniteSets, TLC

\* ------------------------------------------------------------------ bounds
MaxRetriesBound == 2
MaxRetryWait == 1

\* --------------------------------------------------------------- constants
headerAuthorization == "Authorization"
headerContentType == "Content-Type"
headerPublicAPIKey == "X-IntaSend-Public-API-Key"
headerIntaSendPublicKey == "INTASEND_PUBLIC_API_KEY"
headerUserAgent == "User-Agent"
contentTypeJSON == "application/json"
SandboxBaseURL == "https://sandbox.intasend.com/api/v1"
ProductionBaseURL == "https://payment.intasend.com/api/v1"
DefaultUserAgent == "intasend-go/1.0.0"
DefaultMaxRetries == 3
\* in seconds
DefaultRetryWait == 1

VARIABLES
    client,       \* the Client built by New: keys, baseURL, retry policy, debug
    op,           \* the resource operation being called
    cfg,          \* its requestConfig
    ctxDone,      \* ctx.Done() is closed
    ctxAtEntry,   \* history: ctx was already cancelled when the call began
    pc,           \* position of the calling goroutine
    attempt,      \* loop variable of doRequest
    bodyBytes,    \* serialized payload, <<>> when cfg.body is nil
    lastErr,      \* local lastErr of doRequest
    ret,          \* error returned by doRequest
    timerFired,   \* the channel of time.After(waitTime) holds a value
    requests,     \* history: requests handed to httpClient.Do, in order
    last,         \* history: outcome of the latest attempt
    priorStatus,  \* history: every earlier failure was a 429 or >= 500 status
    mixed,        \* history: two attempts failed with different error kinds
    logs,         \* number of lines written by log.Printf
    arg,          \* the id argument of the operation (wallet id, link id, ...)
    reqValue,     \* the value the caller's request object holds now
    optional,     \* the optional field of the caller's request object now
    optionalAtCall, \* the optional field when the operation was called
    probe,        \* the value a pure function is applied to
    answer,       \* what the function returned for probe
    waitTime,     \* duration handed to the latest time.After
    opts,         \* the options given to New
    newRes,       \* what New returned for opts
    calls         \* the calls running concurrently on one client

vars == <<client, op, cfg, ctxDone, ctxAtEntry, pc, attempt, bodyBytes,
          lastErr, ret, timerFired, requests, last, priorStatus, mixed, logs,
          arg, reqValue, waitTime, opts, newRes, calls, optional,
          optionalAtCall, probe, answer>>

\* state that one call of doRequest never touches
outside == <<arg, opts, newRes, calls, optionalAtCall, probe, answer>>

\* ------------------------------------------------------------------ errors
NilErr == [kind |-> "nil", status |-> 0, cause |-> "none", msg |-> ""]

\* &NetworkError{Err: err, Message: message}
NetworkError_noCause(cause, message) ==
    [kind |-> "network", status |-> 0, cause |-> "none", msg |-> message]

NetworkError(cause, message) ==
    [kind |-> "network", status |-> 0, cause |-> cause, msg |-> message]

\* ctx.Err()
CtxErr == [kind |-> "ctx", status |-> 0, cause |-> "ctx", msg |-> ""]

\* fmt.Errorf("intasend: failed to unmarshal response: %w", err)
DecodeErr == [kind |-> "decode", status |-> 0, cause |-> "json", msg |-> ""]

\* errors.As(err, **APIError)
IsAPIError(e) == e.kind = "api"

\* errors.As(err, **NetworkError)
IsNetworkError(e) == e.kind = "network"

\* (*NetworkError).Unwrap
Unwrap(e) == e.cause

\* errors.Is(err, context.Canceled), through NetworkError.Unwrap
IsCancellation(e) == e.kind = "ctx" \/ (e.kind = "network" /\ e.cause = "ctx")

\* --------------------------------------------------------- server outcomes
Statuses == {100, 200, 201, 300, 400, 404, 429, 500, 503}

\* body of a response: none, text that parses as JSON of the expected
\* shape, text that does not
Bodies == {"empty", "json", "text"}

NoOutcome == [kind |-> "none", cause |-> "none", status |-> 0, body |-> "empty"]

SendFailure(cause) ==
    [kind |-> "senderr", cause |-> cause, status |-> 0, body |-> "empty"]

ReadFailure(cause) ==
    [kind |-> "readerr", cause |-> cause, status |-> 0, body |-> "empty"]

Response(s, b) == [kind |-> "resp", cause |-> "none", status |-> s, body |-> b]

\* what Do and ReadAll can yield; a cancelled context can make either fail,
\* and a response that raced the cancellation can still be delivered
Outcomes(cancelled) ==
    {SendFailure("io"), ReadFailure("io")}
    \cup {Response(s, b) : s \in Statuses, b \in Bodies}
    \cup (IF cancelled THEN {SendFailure("ctx"), ReadFailure("ctx")} ELSE {})

\* ----------------------------------------------------------- descriptors
get(path) ==
    [method |-> "GET", path |-> path, body |-> FALSE, result |-> TRUE,
     requiresAuth |-> TRUE, publicKeyOnly |-> FALSE]

post(path) ==
    [method |-> "POST", path |-> path, body |-> TRUE, result |-> TRUE,
     requiresAuth |-> TRUE, publicKeyOnly |-> FALSE]

postPublic(path) ==
    [method |-> "POST", path |-> path, body |-> TRUE, result |-> TRUE,
     requiresAuth |-> FALSE, publicKeyOnly |-> TRUE]

AuthMode(c) ==
    IF c.requiresAuth THEN "bearer-secret"
    ELSE IF c.publicKeyOnly THEN "public-key-only" ELSE "none"

\* ---------------------------------------------------- resource operations
WalletList == get("/wallets/")

WalletCreate == post("/wallets/")

CollectionCharge == postPublic("/checkout/")

CollectionMPesaSTKPush == post("/payment/mpesa-stk-push/")

WalletFundMPesa_public == postPublic("/payment/mpesa-stk-push/")

WalletFundMPesa == post("/payment/mpesa-stk-push/")

WalletFundCheckout == postPublic("/checkout/")

CollectionStatus == postPublic("/payment/status/")

CheckoutCreate == postPublic("/checkout/")

CheckoutCheckStatus == postPublic("/payment/status/")

PayoutInitiate == post("/send-money/initiate/")

PayoutMPesa == PayoutInitiate

PayoutMPesaB2B == PayoutInitiate

PayoutBank == PayoutInitiate

PayoutIntaSend == PayoutInitiate

PayoutAirtime == PayoutInitiate

PayoutApprove == post("/send-money/approve/")

PayoutStatus_get == get("/send-money/status/")

PayoutStatus == post("/send-money/status/")

WalletGet == get("/wallets/" \o arg \o "/")

WalletTransactions == get("/wallets/" \o arg \o "/transactions/")

WalletIntraTransfer == post("/wallets/" \o arg \o "/intra_transfer/")

RefundList == get("/chargebacks/")

RefundCreate == post("/chargebacks/")

RefundGet == get("/chargebacks/" \o arg \o "/")

PaymentLinkList == get("/paymentlinks/")

PaymentLinkCreate == post("/paymentlinks/")

PaymentLinkGet == get("/paymentlinks/" \o arg \o "/")

Ops == {"Wallet.List", "Wallet.Create", "Collection.Charge",
        "Collection.MPesaSTKPush", "Wallet.FundMPesa", "Wallet.FundCheckout"}

OpConfig(o) ==
    CASE o = "Wallet.List" -> WalletList
      [] o = "Wallet.Create" -> WalletCreate
      [] o = "Collection.Charge" -> CollectionCharge
      [] o = "Collection.MPesaSTKPush" -> CollectionMPesaSTKPush
      [] o = "Wallet.FundMPesa" -> WalletFundMPesa
      [] o = "Wallet.FundCheckout" -> WalletFundCheckout
      [] o = "Collection.Status" -> CollectionStatus
      [] o = "Checkout.Create" -> CheckoutCreate
      [] o = "Checkout.CheckStatus" -> CheckoutCheckStatus
      [] o = "Payout.Initiate" -> PayoutInitiate
      [] o = "Payout.MPesa" -> PayoutMPesa
      [] o = "Payout.MPesaB2B" -> PayoutMPesaB2B
      [] o = "Payout.Bank" -> PayoutBank
      [] o = "Payout.IntaSend" -> PayoutIntaSend
      [] o = "Payout.Airtime" -> PayoutAirtime
      [] o = "Payout.Approve" -> PayoutApprove
      [] o = "Payout.Status" -> PayoutStatus
      [] o = "Wallet.Get" -> WalletGet
      [] o = "Wallet.Transactions" -> WalletTransactions
      [] o = "Wallet.IntraTransfer" -> WalletIntraTransfer
      [] o = "Refund.List" -> RefundList
      [] o = "Refund.Create" -> RefundCreate
      [] o = "Refund.Get" -> RefundGet
      [] o = "PaymentLink.List" -> PaymentLinkList
      [] o = "PaymentLink.Create" -> PaymentLinkCreate
      [] o = "PaymentLink.Get" -> PaymentLinkGet

\* every resource operation of the six services
AllOps ==
    Ops \cup
    {"Collection.Status", "Checkout.Create", "Checkout.CheckStatus",
     "Payout.Initiate", "Payout.MPesa", "Payout.MPesaB2B", "Payout.Bank",
     "Payout.IntaSend", "Payout.Airtime", "Payout.Approve", "Payout.Status",
     "Wallet.Get", "Wallet.Transactions", "Wallet.IntraTransfer",
     "Refund.List", "Refund.Create", "Refund.Get",
     "PaymentLink.List", "PaymentLink.Create", "PaymentLink.Get"}

\* ids passed to the operations that take one
Ids == {"W-001", "LINK-123"}

\* values of the caller's request object
RequestValues == {"v1", "v2"}

\* ------------------------------------------------------------- the client
PublishableKeys == {"", "ISPubKey_test_abc123"}
SecretKeys == {"", "ISSecretKey_test_secret"}

\* the clients New returns without error for these keys: at least one key is
\* given, and the test prefix of either key selects the sandbox endpoint
Clients ==
    {[publishableKey |-> pk, secretKey |-> sk, baseURL |-> SandboxBaseURL,
      maxRetries |-> n, retryWait |-> w, userAgent |-> DefaultUserAgent,
      debug |-> d] :
        <<pk, sk>> \in {k \in PublishableKeys \X SecretKeys : ~(k[1] = "" /\ k[2] = "")},
        n \in -1..MaxRetriesBound, w \in 0..MaxRetryWait, d \in BOOLEAN}

\* --------------------------------------------------- pieces of doRequest
\* operations whose request has an optional field with a documented default
PayoutInitiations ==
    {"Payout.Initiate", "Payout.MPesa", "Payout.MPesaB2B", "Payout.Bank",
     "Payout.IntaSend", "Payout.Airtime"}

WalletTypeWorking == "WORKING"

ApprovalRequired == "YES"

ApprovalNotRequired == "NO"

\* the values a caller gives the optional field; "" is the empty field
OptionalValues(o) ==
    IF o = "Wallet.Create" THEN {"", WalletTypeWorking, "SETTLEMENT"}
    ELSE IF o \in PayoutInitiations THEN {"", ApprovalRequired, ApprovalNotRequired}
    ELSE {""}

FieldName(o) ==
    IF o = "Wallet.Create" THEN "wallet_type"
    ELSE IF o \in PayoutInitiations THEN "requires_approval"
    ELSE "none"

\* the optional field of the request object once the operation has run its
\* own steps: Wallet.Create assigns the default to req, the payout
\* operations copy the field as it is
Defaulted_none(o, f) == f

Defaulted(o, f) ==
    IF o = "Wallet.Create" /\ f = "" THEN WalletTypeWorking ELSE f

\* a field tagged omitempty in the serialized payload
OmitEmpty(name, f) == IF f = "" THEN <<>> ELSE <<name, f>>

\* the Client fields after a step of doRequest, which only reads them
ClientAfter_consumed(c) == [c EXCEPT !.maxRetries = @ - 1]

ClientAfter(c) == c

\* json.Marshal(cfg.body), nil when there is no body
Marshal(o, c) ==
    IF c.body
    THEN <<"json", o, reqValue>> \o OmitEmpty(FieldName(o), Defaulted(o, optional))
    ELSE <<>>

\* bytes.NewReader(bodyBytes): the body of one attempt
BodyReader_remarshal(bytes) == Marshal(op, cfg)

BodyReader(bytes) == bytes

\* the for-loop condition
LoopCond_extra(a) == a <= client.maxRetries + 1

LoopCond(a) == a <= client.maxRetries

\* c.retryWait * time.Duration(1<<(attempt-1))
WaitTime_shift(a) == client.retryWait * (2 ^ a)

WaitTime(a) == client.retryWait * (2 ^ (a - 1))

HeaderSet(h, k, v) == [n \in (DOMAIN h) \cup {k} |-> IF n = k THEN v ELSE h[n]]

HeaderGet(h, k) == IF k \in DOMAIN h THEN h[k] ELSE ""

SetPublicKeyHeaders_one(h) ==
    IF client.publishableKey # ""
    THEN HeaderSet(h, headerPublicAPIKey, client.publishableKey)
    ELSE h

SetPublicKeyHeaders(h) ==
    IF client.publishableKey # ""
    THEN HeaderSet(HeaderSet(h, headerPublicAPIKey, client.publishableKey),
                   headerIntaSendPublicKey, client.publishableKey)
    ELSE h

SetAuthHeader_always(h, c) ==
    IF client.secretKey # ""
    THEN HeaderSet(h, headerAuthorization, "Bearer " \o client.secretKey)
    ELSE h

SetAuthHeader(h, c) ==
    IF c.requiresAuth /\ client.secretKey # ""
    THEN HeaderSet(h, headerAuthorization, "Bearer " \o client.secretKey)
    ELSE h

EmptyHeader == [n \in {} |-> ""]

\* http.NewRequestWithContext and the Header.Set calls
BuildRequest(c, bytes) ==
    [method |-> c.method,
     url |-> client.baseURL \o c.path,
     body |-> BodyReader(bytes),
     header |-> SetAuthHeader(
                  SetPublicKeyHeaders(
                    HeaderSet(HeaderSet(EmptyHeader, headerContentType, contentTypeJSON),
                              headerUserAgent, client.userAgent)), c)]

IsSuccessStatus_below(s) == ~(s >= 300)

IsSuccessStatus_strict(s) == ~(s <= 200 \/ s >= 300)

IsSuccessStatus(s) == ~(s < 200 \/ s >= 300)

IsTerminalStatus_strict(s) == s > 400 /\ s < 500 /\ s # 429

IsTerminalStatus(s) == s >= 400 /\ s < 500 /\ s # 429

\* string(respBody) for each body
RawText(b) ==
    CASE b = "json" -> "{\"message\": \"parsed message\"}"
      [] b = "text" -> "plain text error"
      [] b = "empty" -> ""

\* json.Unmarshal(respBody, apiErr) returns nil; it fails on text that is
\* not JSON and on an empty body
ErrorShapeParses(b) == b = "json"

\* apiErr after json.Unmarshal(respBody, apiErr), raw body on parse failure
APIError_noRaw(s, b) ==
    [kind |-> "api", status |-> s, cause |-> "none",
     msg |-> IF ErrorShapeParses(b) THEN "parsed message" ELSE ""]

APIError(s, b) ==
    [kind |-> "api", status |-> s, cause |-> "none",
     msg |-> IF ErrorShapeParses(b) THEN "parsed message" ELSE RawText(b)]

\* the assignment lastErr = ...
RecordLastErr_first(old, new) == IF old = NilErr THEN new ELSE old

RecordLastErr(old, new) == new

\* the error an attempt with a retryable outcome records
ErrOf(o) ==
    CASE o.kind = "senderr" -> NetworkError(o.cause, "request failed")
      [] o.kind = "readerr" -> NetworkError(o.cause, "failed to read response")
      [] o.kind = "resp" -> APIError(o.status, o.body)

\* the attempt records an error and continues
IsRetryable(o) ==
    \/ o.kind \in {"senderr", "readerr"}
    \/ o.kind = "resp" /\ ~IsSuccessStatus(o.status) /\ ~IsTerminalStatus(o.status)

\* json.Unmarshal(respBody, cfg.result) fails
DecodeFails_never(c, o) == FALSE

DecodeFails(c, o) == c.result /\ o.body # "empty" /\ o.body # "json"

StatusRetry(o) == o.kind = "resp" /\ (o.status = 429 \/ o.status >= 500)

FailKind(o) ==
    IF o.kind # "resp" THEN o.kind
    ELSE IF o.status = 429 THEN "429"
    ELSE IF o.status >= 500 THEN "5xx" ELSE "other"

\* log lines written by one pass, only with debug on
LogLines(n) == IF client.debug THEN logs + n ELSE logs

\* ----------------------------------------------------------- construction
\* A key given to New is a sequence of pieces, so that strings.HasPrefix
\* can be computed: "ISPubKey_test_abc123" is <<"ISPubKey_", "test", "_abc123">>.
HasPrefix(s, prefix) ==
    Len(s) >= Len(prefix) /\ SubSeq(s, 1, Len(prefix)) = prefix

KeyValues ==
    {<<>>,
     <<"ISPubKey_", "test", "_abc123">>,
     <<"ISPubKey_", "live", "_abc123">>,
     <<"ISSecretKey_", "test", "_abc123">>,
     <<"ISSecretKey_", "live", "_abc123">>,
     <<"ISPubKey_">>,
     <<"INVALID_KEY">>}

BaseURLValues == {"", "https://custom.example.com/api/v1"}

ErrNoKeysProvided == "intasend: at least one API key must be provided"

ErrInvalidEnvironment == "intasend: could not determine environment from keys"

WithPublishableKey(key) == [name |-> "WithPublishableKey", value |-> key]

WithSecretKey(key) == [name |-> "WithSecretKey", value |-> key]

WithBaseURL(url) == [name |-> "WithBaseURL", value |-> url]

WithSandbox == [name |-> "WithSandbox", value |-> SandboxBaseURL]

WithProduction == [name |-> "WithProduction", value |-> ProductionBaseURL]

Options ==
    {WithPublishableKey(k) : k \in KeyValues} \cup
    {WithSecretKey(k) : k \in KeyValues} \cup
    {WithBaseURL(u) : u \in BaseURLValues} \cup
    {WithSandbox, WithProduction}

\* the longest option list given to New
MaxOptions == 3

OptionLists == UNION {[1..n -> Options] : n \in 0..MaxOptions}

\* opt(c): what one option does to the client under construction
ApplyOption(c, opt) ==
    CASE opt.name = "WithPublishableKey" -> [c EXCEPT !.publishableKey = opt.value]
      [] opt.name = "WithSecretKey" -> [c EXCEPT !.secretKey = opt.value]
      [] opt.name \in {"WithBaseURL", "WithSandbox", "WithProduction"} ->
           [c EXCEPT !.baseURL = opt.value]

RECURSIVE ApplyOptions(_, _)
ApplyOptions(c, os) ==
    IF os = <<>> THEN c
    ELSE ApplyOptions(ApplyOption(c, Head(os)), Tail(os))

detectEnvironment_secretFirst(c) ==
    IF HasPrefix(c.secretKey, <<"ISSecretKey_", "test">>)
    THEN [c EXCEPT !.baseURL = SandboxBaseURL]
    ELSE IF HasPrefix(c.secretKey, <<"ISSecretKey_", "live">>)
    THEN [c EXCEPT !.baseURL = ProductionBaseURL]
    ELSE IF HasPrefix(c.publishableKey, <<"ISPubKey_", "test">>)
    THEN [c EXCEPT !.baseURL = SandboxBaseURL]
    ELSE IF HasPrefix(c.publishableKey, <<"ISPubKey_", "live">>)
    THEN [c EXCEPT !.baseURL = ProductionBaseURL]
    ELSE c

detectEnvironment(c) ==
    IF HasPrefix(c.publishableKey, <<"ISPubKey_", "test">>)
    THEN [c EXCEPT !.baseURL = SandboxBaseURL]
    ELSE IF HasPrefix(c.publishableKey, <<"ISPubKey_", "live">>)
    THEN [c EXCEPT !.baseURL = ProductionBaseURL]
    ELSE IF HasPrefix(c.secretKey, <<"ISSecretKey_", "test">>)
    THEN [c EXCEPT !.baseURL = SandboxBaseURL]
    ELSE IF HasPrefix(c.secretKey, <<"ISSecretKey_", "live">>)
    THEN [c EXCEPT !.baseURL = ProductionBaseURL]
    ELSE c

\* c.publishableKey == "" && c.secretKey == ""
NoKeys_never(c) == FALSE

NoKeys(c) == c.publishableKey = <<>> /\ c.secretKey = <<>>

\* the first c.baseURL == "": no option has set an endpoint
EndpointUnset_always(c) == TRUE

EndpointUnset(c) == c.baseURL = ""

NilClient == [nil |-> TRUE]

NewClient ==
    [publishableKey |-> <<>>, secretKey |-> <<>>, baseURL |-> "",
     maxRetries |-> DefaultMaxRetries, retryWait |-> DefaultRetryWait,
     userAgent |-> DefaultUserAgent, debug |-> FALSE]

New(os) ==
    LET c == ApplyOptions(NewClient, os)
        d == IF EndpointUnset(c) THEN detectEnvironment(c) ELSE c
    IN  IF NoKeys(c) THEN [client |-> NilClient, err |-> ErrNoKeysProvided]
        ELSE IF d.baseURL = "" THEN [client |-> NilClient, err |-> ErrInvalidEnvironment]
        ELSE [client |-> d, err |-> "nil"]

IsSandbox(c) == c.baseURL = SandboxBaseURL

IsProduction(c) == c.baseURL = ProductionBaseURL

\* values of the variables of New and of the concurrent calls while
\* neither is being looked at
NoOptions == <<>>

NotCalled == [client |-> NilClient, err |-> "not called"]

NoCalls == <<>>

NoProbe == [kind |-> "none"]

NoAnswer == [kind |-> "none"]

\* ------------------------------------------------------------------- Init
Init ==
    /\ client \in Clients
    /\ op \in Ops
    /\ cfg = OpConfig(op)
    /\ ctxDone \in BOOLEAN
    /\ ctxAtEntry = ctxDone
    /\ pc = "start"
    /\ attempt = 0
    /\ bodyBytes = <<>>
    /\ lastErr = NilErr
    /\ ret = NilErr
    /\ timerFired = FALSE
    /\ requests = <<>>
    /\ last = NoOutcome
    /\ priorStatus = TRUE
    /\ mixed = FALSE
    /\ logs = 0
    /\ arg = "W-001"
    /\ reqValue = "v1"
    /\ optional = ""
    /\ optionalAtCall = optional
    /\ probe = NoProbe
    /\ answer = NoAnswer
    /\ waitTime = 0
    /\ opts = NoOptions
    /\ newRes = NotCalled
    /\ calls = NoCalls

\* ---------------------------------------------------------------- actions
\* the operation is called: its own steps before post/get, then the entry
\* of doRequest: marshal, then the first evaluation of the loop condition
\* with attempt = 0
Enter ==
    /\ pc = "start"
    /\ optional' = Defaulted(op, optional)
    /\ bodyBytes' = Marshal(op, cfg)
    /\ attempt' = 0
    /\ IF LoopCond(0)
       THEN pc' = "send" /\ ret' = ret
       ELSE pc' = "done" /\ ret' = lastErr
    /\ client' = ClientAfter(client)
    /\ UNCHANGED <<op, cfg, ctxDone, ctxAtEntry, lastErr, timerFired,
                   requests, last, priorStatus, mixed, logs, reqValue,
                   waitTime, outside>>

\* `continue` after recording le: attempt++, loop condition, and for a
\* further iteration the retry log line and time.After(waitTime)
Continue(le, n) ==
    /\ lastErr' = le
    /\ attempt' = attempt + 1
    /\ IF LoopCond(attempt + 1)
       THEN /\ pc' = "select"
            /\ ret' = ret
            /\ waitTime' = WaitTime(attempt + 1)
            /\ timerFired' = (WaitTime(attempt + 1) <= 0)
            /\ logs' = LogLines(n + 1)
       ELSE /\ pc' = "done"
            /\ ret' = le
            /\ waitTime' = waitTime
            /\ timerFired' = FALSE
            /\ logs' = LogLines(n)

\* return e from inside the loop
Return(e, n) ==
    /\ pc' = "done"
    /\ ret' = e
    /\ logs' = LogLines(n)
    /\ UNCHANGED <<lastErr, attempt, timerFired, waitTime>>

\* the rest of an iteration once Do and ReadAll have produced outcome o;
\* n log lines were written before
Handle(o, n) ==
    /\ last' = o
    /\ priorStatus' = (priorStatus /\ (last = NoOutcome \/ StatusRetry(last)))
    /\ mixed' = (mixed \/ (last # NoOutcome /\ IsRetryable(o) /\ FailKind(o) # FailKind(last)))
    /\ CASE o.kind = "senderr" ->
              Continue(RecordLastErr(lastErr, NetworkError(o.cause, "request failed")), n + 1)
         [] o.kind = "readerr" ->
              Continue(RecordLastErr(lastErr, NetworkError(o.cause, "failed to read response")), n + 1)
         [] o.kind = "resp" /\ ~IsSuccessStatus(o.status) ->
              IF IsTerminalStatus(o.status)
              THEN Return(APIError(o.status, o.body), n + 2)
              ELSE Continue(RecordLastErr(lastErr, APIError(o.status, o.body)), n + 2)
         [] o.kind = "resp" /\ IsSuccessStatus(o.status) ->
              IF DecodeFails(cfg, o)
              THEN Return(DecodeErr, n + 2)
              ELSE Return(NilErr, n + 2)

\* log lines of the request: method and url, and the body when there is one
RequestLogLines == IF bodyBytes # <<>> THEN 2 ELSE 1

\* build the request and call httpClient.Do.  With the context already
\* cancelled the transport fails at once; otherwise the call is in flight.
Send ==
    /\ pc = "send"
    /\ requests' = Append(requests, BuildRequest(cfg, bodyBytes))
    /\ IF ctxDone
       THEN Handle(SendFailure("ctx"), RequestLogLines)
       ELSE /\ pc' = "inflight"
            /\ logs' = LogLines(RequestLogLines)
            /\ UNCHANGED <<attempt, lastErr, ret, timerFired, last, priorStatus,
                           mixed, waitTime>>
    /\ client' = ClientAfter(client)
    /\ UNCHANGED <<op, cfg, ctxDone, ctxAtEntry, bodyBytes, reqValue, optional,
                   outside>>

\* Do and ReadAll return
Receive ==
    /\ pc = "inflight"
    /\ \E o \in Outcomes(ctxDone) : Handle(o, 0)
    /\ client' = ClientAfter(client)
    /\ UNCHANGED <<op, cfg, ctxDone, ctxAtEntry, bodyBytes, requests,
                   reqValue, optional, outside>>

\* the select finds the context case ready and takes it
SelectCtx ==
    /\ pc = "select"
    /\ ctxDone
    /\ pc' = "done"
    /\ ret' = CtxErr
    /\ UNCHANGED <<client, op, cfg, ctxDone, ctxAtEntry, attempt, bodyBytes,
                   lastErr, timerFired, requests, last, priorStatus, mixed, logs,
                   reqValue, optional, waitTime, outside>>

\* the select finds the timer case ready and takes it
SelectTimer ==
    /\ pc = "select"
    /\ timerFired
    /\ pc' = "send"
    /\ UNCHANGED <<client, op, cfg, ctxDone, ctxAtEntry, attempt, bodyBytes,
                   lastErr, ret, timerFired, requests, last, priorStatus, mixed, logs,
                   reqValue, optional, waitTime, outside>>

\* no case is ready: the goroutine parks
SelectBlock ==
    /\ pc = "select"
    /\ ~ctxDone
    /\ ~timerFired
    /\ pc' = "blocked"
    /\ UNCHANGED <<client, op, cfg, ctxDone, ctxAtEntry, attempt, bodyBytes,
                   lastErr, ret, timerFired, requests, last, priorStatus, mixed, logs,
                   reqValue, optional, waitTime, outside>>

\* where the goroutine is once its timer has expired: parked in the select,
\* it resumes with the timer case
Resume_parked(p) == p

Resume(p) == IF p = "blocked" THEN "send" ELSE p

\* the timer expires; a goroutine parked in the select resumes with that case
TimerFire ==
    /\ pc \in {"select", "blocked"}
    /\ ~timerFired
    /\ timerFired' = TRUE
    /\ pc' = Resume(pc)
    /\ UNCHANGED <<client, op, cfg, ctxDone, ctxAtEntry, attempt, bodyBytes,
                   lastErr, ret, requests, last, priorStatus, mixed, logs,
                   reqValue, optional, waitTime, outside>>

\* the caller cancels the context (or its deadline passes); a goroutine
\* parked in the select resumes with the context case and returns ctx.Err()
Cancel ==
    /\ pc \in {"send", "inflight", "select", "blocked"}
    /\ ~ctxDone
    /\ ctxDone' = TRUE
    /\ IF pc = "blocked"
       THEN pc' = "done" /\ ret' = CtxErr
       ELSE pc' = pc /\ ret' = ret
    /\ UNCHANGED <<client, op, cfg, ctxAtEntry, attempt, bodyBytes, lastErr,
                   timerFired, requests, last, priorStatus, mixed, logs,
                   reqValue, optional, waitTime, outside>>

\* the caller changes its request object while the call is running
MutateRequest ==
    /\ pc \in {"send", "inflight", "select", "blocked"}
    /\ cfg.body
    /\ reqValue = "v1"
    /\ reqValue' = "v2"
    /\ UNCHANGED <<client, op, cfg, ctxDone, ctxAtEntry, pc, attempt, bodyBytes,
                   lastErr, ret, timerFired, requests, last, priorStatus, mixed,
                   logs, optional, waitTime, outside>>

Next ==
    \/ Enter
    \/ Send
    \/ Receive
    \/ SelectCtx
    \/ SelectTimer
    \/ SelectBlock
    \/ TimerFire
    \/ Cancel
    \/ MutateRequest

Spec == Init /\ [][Next]_vars

\* every resource operation, on a client that retries once after a wait
InitWire ==
    /\ client \in {c \in Clients : c.maxRetries = 1 /\ c.retryWait = 1 /\ ~c.debug}
    /\ op \in AllOps
    /\ arg \in Ids
    /\ cfg = OpConfig(op)
    /\ ctxDone = FALSE
    /\ ctxAtEntry = ctxDone
    /\ pc = "start"
    /\ attempt = 0
    /\ bodyBytes = <<>>
    /\ lastErr = NilErr
    /\ ret = NilErr
    /\ timerFired = FALSE
    /\ requests = <<>>
    /\ last = NoOutcome
    /\ priorStatus = TRUE
    /\ mixed = FALSE
    /\ logs = 0
    /\ reqValue = "v1"
    /\ optional \in OptionalValues(op)
    /\ optionalAtCall = optional
    /\ probe = NoProbe
    /\ answer = NoAnswer
    /\ waitTime = 0
    /\ opts = NoOptions
    /\ newRes = NotCalled
    /\ calls = NoCalls

SpecWire == InitWire /\ [][Next]_vars

\* calls of two operations, with the scheduling the runtime gives: the
\* goroutine runs when it can, every Do returns, every timer expires.  The
\* caller need not cancel and need not touch its request.
InitLive ==
    /\ client \in {c \in Clients : ~c.debug /\ c.publishableKey # "" /\ c.secretKey # ""}
    /\ op \in {"Wallet.List", "Wallet.Create"}
    /\ arg = "W-001"
    /\ cfg = OpConfig(op)
    /\ ctxDone \in BOOLEAN
    /\ ctxAtEntry = ctxDone
    /\ pc = "start"
    /\ attempt = 0
    /\ bodyBytes = <<>>
    /\ lastErr = NilErr
    /\ ret = NilErr
    /\ timerFired = FALSE
    /\ requests = <<>>
    /\ last = NoOutcome
    /\ priorStatus = TRUE
    /\ mixed = FALSE
    /\ logs = 0
    /\ reqValue = "v1"
    /\ optional = ""
    /\ optionalAtCall = optional
    /\ probe = NoProbe
    /\ answer = NoAnswer
    /\ waitTime = 0
    /\ opts = NoOptions
    /\ newRes = NotCalled
    /\ calls = NoCalls

Fairness ==
    /\ WF_vars(Enter)
    /\ WF_vars(Send)
    /\ WF_vars(Receive)
    /\ WF_vars(SelectCtx)
    /\ WF_vars(SelectTimer)
    /\ WF_vars(SelectBlock)
    /\ WF_vars(TimerFire)

SpecLive == InitLive /\ [][Next]_vars /\ Fairness

\* New on every option list; no call of doRequest is running
InitNew ==
    /\ opts \in OptionLists
    /\ newRes = NotCalled
    /\ pc = "new"
    /\ client \in {c \in Clients : /\ c.maxRetries = 0 /\ c.retryWait = 0 /\ ~c.debug
                                   /\ c.publishableKey # "" /\ c.secretKey # ""}
    /\ op = "Wallet.List"
    /\ arg = "W-001"
    /\ cfg = OpConfig(op)
    /\ ctxDone = FALSE
    /\ ctxAtEntry = FALSE
    /\ attempt = 0
    /\ bodyBytes = <<>>
    /\ lastErr = NilErr
    /\ ret = NilErr
    /\ timerFired = FALSE
    /\ requests = <<>>
    /\ last = NoOutcome
    /\ priorStatus = TRUE
    /\ mixed = FALSE
    /\ logs = 0
    /\ reqValue = "v1"
    /\ optional = ""
    /\ optionalAtCall = optional
    /\ probe = NoProbe
    /\ answer = NoAnswer
    /\ waitTime = 0
    /\ calls = NoCalls

CallNew ==
    /\ pc = "new"
    /\ newRes' = New(opts)
    /\ pc' = "constructed"
    /\ UNCHANGED <<client, op, cfg, ctxDone, ctxAtEntry, attempt, bodyBytes,
                   lastErr, ret, timerFired, requests, last, priorStatus, mixed,
                   logs, arg, reqValue, waitTime, opts, calls, optional,
                   optionalAtCall, probe, answer>>

NextNew == CallNew

SpecNew == InitNew /\ [][NextNew]_vars

\* ------------------------------------------------------- concurrent calls
\* Two goroutines call doRequest on one client.  The server's answer to each
\* attempt of a call is fixed beforehand in the call's script, so that the
\* call can be compared with the same call run alone.
CallIds == {1, 2}

ConcOps == {"Wallet.List", "Wallet.Create"}

ConcOutcomes ==
    {SendFailure("io"), Response(500, "text"), Response(429, "json"),
     Response(400, "text"), Response(200, "json")}

\* one outcome per attempt of the budget (maxRetries = 1)
Scripts == [1..2 -> ConcOutcomes]

\* where a call keeps lastErr: a local of its own invocation
LastErrSlot_shared(i) == 1

LastErrSlot(i) == i

\* what one iteration does with the outcome of Do and ReadAll: the error,
\* and whether the loop continues with it as lastErr or returns it
Classify(c, o) ==
    CASE o.kind = "senderr" ->
           [continue |-> TRUE, err |-> NetworkError(o.cause, "request failed")]
      [] o.kind = "readerr" ->
           [continue |-> TRUE, err |-> NetworkError(o.cause, "failed to read response")]
      [] o.kind = "resp" /\ ~IsSuccessStatus(o.status) ->
           [continue |-> ~IsTerminalStatus(o.status), err |-> APIError(o.status, o.body)]
      [] o.kind = "resp" /\ IsSuccessStatus(o.status) ->
           [continue |-> FALSE, err |-> IF DecodeFails(c, o) THEN DecodeErr ELSE NilErr]

\* doRequest run to its end by one goroutine, from attempt a on
RECURSIVE RunAlone(_, _, _, _, _, _)
RunAlone(c, bytes, script, a, le, reqs) ==
    IF ~LoopCond(a) THEN [requests |-> reqs, ret |-> le]
    ELSE LET r == Classify(c, script[a + 1])
             sent == Append(reqs, BuildRequest(c, bytes))
         IN  IF r.continue
             THEN RunAlone(c, bytes, script, a + 1, r.err, sent)
             ELSE [requests |-> sent, ret |-> r.err]

InitConc ==
    /\ calls \in
         [local : [CallIds -> [op : ConcOps, script : Scripts, pc : {"start"},
                               attempt : {0}, bodyBytes : {<<>>},
                               requests : {<<>>}, ret : {NilErr},
                               debug : {FALSE}, logs : {0}]],
          lastErr : {[i \in CallIds |-> NilErr]}]
    /\ client \in {c \in Clients : /\ c.maxRetries = 1 /\ c.retryWait = 0 /\ ~c.debug
                                   /\ c.publishableKey # "" /\ c.secretKey # ""}
    /\ pc = "concurrent"
    /\ op = "Wallet.List"
    /\ arg = "W-001"
    /\ cfg = OpConfig(op)
    /\ ctxDone = FALSE
    /\ ctxAtEntry = FALSE
    /\ attempt = 0
    /\ bodyBytes = <<>>
    /\ lastErr = NilErr
    /\ ret = NilErr
    /\ timerFired = FALSE
    /\ requests = <<>>
    /\ last = NoOutcome
    /\ priorStatus = TRUE
    /\ mixed = FALSE
    /\ logs = 0
    /\ reqValue = "v1"
    /\ optional = ""
    /\ optionalAtCall = optional
    /\ probe = NoProbe
    /\ answer = NoAnswer
    /\ waitTime = 0
    /\ opts = NoOptions
    /\ newRes = NotCalled

\* the outcome of Do and ReadAll as the rest of the iteration sees it: the
\* debug lines print respBody, which ReadAll has already filled
Observed_drained(debug, o) ==
    IF debug /\ o.kind = "resp" THEN [o EXCEPT !.body = "empty"] ELSE o

Observed(debug, o) == o

\* log.Printf of n lines under `if c.debug`, for a call whose client has
\* the debug flag as me.debug
ConcLog(me, n) == IF me.debug THEN me.logs + n ELSE me.logs

\* entry of doRequest in goroutine i
ConcEnter(i) ==
    /\ calls.local[i].pc = "start"
    /\ calls' = [calls EXCEPT
                   !.local[i] = [@ EXCEPT
                       !.bodyBytes = Marshal(calls.local[i].op,
                                             OpConfig(calls.local[i].op)),
                       !.pc = IF LoopCond(0) THEN "send" ELSE "done",
                       !.ret = IF LoopCond(0)
                               THEN @ ELSE calls.lastErr[LastErrSlot(i)]]]

\* goroutine i builds its request and calls Do
ConcSend(i) ==
    /\ calls.local[i].pc = "send"
    /\ calls' = [calls EXCEPT
                   !.local[i] = [@ EXCEPT
                       !.requests = Append(@, BuildRequest(OpConfig(calls.local[i].op),
                                                           calls.local[i].bodyBytes)),
                       !.logs = ConcLog(calls.local[i],
                                        IF calls.local[i].bodyBytes # <<>> THEN 2 ELSE 1),
                       !.pc = "inflight"]]

\* Do and ReadAll return in goroutine i with the next outcome of its script
ConcReceive(i) ==
    /\ calls.local[i].pc = "inflight"
    /\ LET me == calls.local[i]
           o == me.script[me.attempt + 1]
           r == Classify(OpConfig(me.op), Observed(me.debug, o))
           n == IF o.kind = "resp" THEN 2 ELSE 1
       IN  IF r.continue
           THEN calls' = [calls EXCEPT !.lastErr[LastErrSlot(i)] = r.err,
                                       !.local[i].logs = ConcLog(me, n),
                                       !.local[i].pc = "continue"]
           ELSE calls' = [calls EXCEPT !.local[i].pc = "done",
                                       !.local[i].logs = ConcLog(me, n),
                                       !.local[i].ret = r.err]

\* goroutine i: attempt++, the loop condition, return lastErr at its end
ConcContinue(i) ==
    /\ calls.local[i].pc = "continue"
    /\ calls' = [calls EXCEPT
                   !.local[i] = [@ EXCEPT
                       !.attempt = @ + 1,
                       !.logs = ConcLog(calls.local[i],
                                        IF LoopCond(calls.local[i].attempt + 1)
                                        THEN 1 ELSE 0),
                       !.pc = IF LoopCond(calls.local[i].attempt + 1)
                              THEN "select" ELSE "done",
                       !.ret = IF LoopCond(calls.local[i].attempt + 1)
                               THEN @ ELSE calls.lastErr[LastErrSlot(i)]]]

\* the timer of goroutine i expires
ConcTimer(i) ==
    /\ calls.local[i].pc = "select"
    /\ calls' = [calls EXCEPT !.local[i].pc = "send"]

ConcStep(i) ==
    \/ ConcEnter(i)
    \/ ConcSend(i)
    \/ ConcReceive(i)
    \/ ConcContinue(i)
    \/ ConcTimer(i)

NextConc ==
    /\ pc = "concurrent"
    /\ \E i \in CallIds : ConcStep(i)
    /\ UNCHANGED <<client, op, cfg, ctxDone, ctxAtEntry, pc, attempt, bodyBytes,
                   lastErr, ret, timerFired, requests, last, priorStatus, mixed,
                   logs, arg, reqValue, waitTime, opts, newRes, optional,
                   optionalAtCall, probe, answer>>

SpecConc == InitConc /\ [][NextConc]_vars

\* ------------------------------------------------------ debug on and off
\* The same call twice, with the same answers of the server: call 1 on a
\* client with the debug flag set, call 2 on the same configuration without.
DebugOutcomes ==
    ConcOutcomes \cup {ReadFailure("io"), Response(100, "empty"), Response(201, "text")}

InitDebug ==
    /\ calls \in
         {[local |-> [i \in CallIds |->
                        [op |-> o, script |-> sc, pc |-> "start", attempt |-> 0,
                         bodyBytes |-> <<>>, requests |-> <<>>, ret |-> NilErr,
                         debug |-> (i = 1), logs |-> 0]],
           lastErr |-> [i \in CallIds |-> NilErr]] :
            o \in ConcOps, sc \in [1..2 -> DebugOutcomes]}
    /\ client \in {c \in Clients : c.maxRetries <= 1 /\ c.retryWait = 0 /\ ~c.debug}
    /\ pc = "concurrent"
    /\ op = "Wallet.List"
    /\ arg = "W-001"
    /\ cfg = OpConfig(op)
    /\ ctxDone = FALSE
    /\ ctxAtEntry = FALSE
    /\ attempt = 0
    /\ bodyBytes = <<>>
    /\ lastErr = NilErr
    /\ ret = NilErr
    /\ timerFired = FALSE
    /\ requests = <<>>
    /\ last = NoOutcome
    /\ priorStatus = TRUE
    /\ mixed = FALSE
    /\ logs = 0
    /\ reqValue = "v1"
    /\ optional = ""
    /\ optionalAtCall = optional
    /\ probe = NoProbe
    /\ answer = NoAnswer
    /\ waitTime = 0
    /\ opts = NoOptions
    /\ newRes = NotCalled

SpecDebug == InitDebug /\ [][NextConc]_vars

\* ------------------------------------------------- APIError's predicates
\* the longest field-error map of an APIError looked at
MaxFieldErrors == 2

ProbeStatuses == {0, 200, 500} \cup (395..435)

\* an APIError: its HTTPStatusCode and len(Errors)
APIErrors == [kind : {"apierr"}, status : ProbeStatuses, errors : 0..MaxFieldErrors]

IsNotFound(e) == e.status = 404

IsAuthenticationError_401(e) == e.status = 401

IsAuthenticationError(e) == e.status = 401 \/ e.status = 403

IsValidationError(e) == e.status = 400 /\ e.errors > 0

IsRateLimited(e) == e.status = 429

InitPredicates ==
    /\ probe \in APIErrors
    /\ answer = NoAnswer
    /\ pc = "probe"
    /\ client \in {c \in Clients : /\ c.maxRetries = 0 /\ c.retryWait = 0 /\ ~c.debug
                                   /\ c.publishableKey # "" /\ c.secretKey # ""}
    /\ op = "Wallet.List"
    /\ arg = "W-001"
    /\ cfg = OpConfig(op)
    /\ ctxDone = FALSE
    /\ ctxAtEntry = FALSE
    /\ attempt = 0
    /\ bodyBytes = <<>>
    /\ lastErr = NilErr
    /\ ret = NilErr
    /\ timerFired = FALSE
    /\ requests = <<>>
    /\ last = NoOutcome
    /\ priorStatus = TRUE
    /\ mixed = FALSE
    /\ logs = 0
    /\ reqValue = "v1"
    /\ optional = ""
    /\ optionalAtCall = optional
    /\ waitTime = 0
    /\ opts = NoOptions
    /\ newRes = NotCalled
    /\ calls = NoCalls

CallPredicates ==
    /\ pc = "probe"
    /\ probe.kind = "apierr"
    /\ answer' = [kind |-> "predicates",
                  IsNotFound |-> IsNotFound(probe),
                  IsAuthenticationError |-> IsAuthenticationError(probe),
                  IsValidationError |-> IsValidationError(probe),
                  IsRateLimited |-> IsRateLimited(probe)]
    /\ pc' = "answered"
    /\ UNCHANGED <<client, op, cfg, ctxDone, ctxAtEntry, attempt, bodyBytes,
                   lastErr, ret, timerFired, requests, last, priorStatus, mixed,
                   logs, arg, reqValue, waitTime, opts, newRes, calls, optional,
                   optionalAtCall, probe>>

NextPredicates == CallPredicates

SpecPredicates == InitPredicates /\ [][NextPredicates]_vars

\* ---------------------------------------------- the backoff wait in int64
\* An int64 is the set of the positions of its one bits, bit 63 the sign:
\* the shift and the product are computed with the wrap-around of the type.
Int64Zero == {}

\* 1 << k for an int: zero once k reaches the width
ShiftOne(k) == IF k < 64 THEN {k} ELSE Int64Zero

\* x * d for d zero or a power of two
Times(x, d) ==
    IF d = Int64Zero THEN Int64Zero
    ELSE LET k == CHOOSE b \in d : TRUE
         IN  {b + k : b \in x} \cap (0..63)

IsNegative(x) == 63 \in x

\* x < y as signed integers
Less(x, y) ==
    IF IsNegative(x) # IsNegative(y) THEN IsNegative(x)
    ELSE \E b \in y \ x : \A c \in x \ y : c < b

\* c.retryWait * time.Duration(1<<(attempt-1)) in int64
WaitTime64(retryWait, a) == Times(retryWait, ShiftOne(a - 1))

\* base waits in nanoseconds: 0, 1ns, 3ns, 1ms, 1s, 2^62 ns
BaseWaits ==
    {Int64Zero, {0}, {0, 1},
     {6, 9, 14, 16, 17, 18, 19},
     {9, 11, 14, 15, 17, 19, 20, 23, 24, 25, 27, 28, 29},
     {62}}

\* the largest attempt number looked at
MaxAttemptNumber == 66

InitBackoff ==
    /\ probe \in [kind : {"backoff"}, retryWait : BaseWaits, attempt : 1..MaxAttemptNumber]
    /\ answer = NoAnswer
    /\ pc = "probe"
    /\ client \in {c \in Clients : /\ c.maxRetries = 0 /\ c.retryWait = 0 /\ ~c.debug
                                   /\ c.publishableKey # "" /\ c.secretKey # ""}
    /\ op = "Wallet.List"
    /\ arg = "W-001"
    /\ cfg = OpConfig(op)
    /\ ctxDone = FALSE
    /\ ctxAtEntry = FALSE
    /\ attempt = 0
    /\ bodyBytes = <<>>
    /\ lastErr = NilErr
    /\ ret = NilErr
    /\ timerFired = FALSE
    /\ requests = <<>>
    /\ last = NoOutcome
    /\ priorStatus = TRUE
    /\ mixed = FALSE
    /\ logs = 0
    /\ reqValue = "v1"
    /\ optional = ""
    /\ optionalAtCall = optional
    /\ waitTime = 0
    /\ opts = NoOptions
    /\ newRes = NotCalled
    /\ calls = NoCalls

\* the waits computed before retry attempt n and before the one preceding it
CallWaitTime ==
    /\ pc = "probe"
    /\ probe.kind = "backoff"
    /\ answer' = [kind |-> "waits",
                  wait |-> WaitTime64(probe.retryWait, probe.attempt),
                  previous |-> IF probe.attempt >= 2
                               THEN WaitTime64(probe.retryWait, probe.attempt - 1)
                               ELSE Int64Zero]
    /\ pc' = "answered"
    /\ UNCHANGED <<client, op, cfg, ctxDone, ctxAtEntry, attempt, bodyBytes,
                   lastErr, ret, timerFired, requests, last, priorStatus, mixed,
                   logs, arg, reqValue, waitTime, opts, newRes, calls, optional,
                   optionalAtCall, probe>>

NextBackoff == CallWaitTime

SpecBackoff == InitBackoff /\ [][NextBackoff]_vars

\* ------------------------------------------------------------- properties
\* an attempt outcome after which the loop records an error and goes on,
\* written out from the status ranges
RetryableFailure(o) ==
    \/ o.kind \in {"senderr", "readerr"}
    \/ /\ o.kind = "resp"
       /\ (o.status < 200 \/ o.status >= 300)
       /\ ~(o.status >= 400 /\ o.status < 500 /\ o.status # 429)

TerminalResponse(o) ==
    o.kind = "resp" /\ o.status >= 400 /\ o.status < 500 /\ o.status # 429

SuccessResponse(o) == o.kind = "resp" /\ o.status >= 200 /\ o.status < 300

\* C1: with maxRetries = N >= 0 a call makes at most N + 1 send attempts,
\* whatever the server answers and however the transport fails.
C1_AtMostNPlusOneAttempts ==
    client.maxRetries >= 0 => Len(requests) <= client.maxRetries + 1

C1_Witness ==
    /\ pc = "done"
    /\ client.maxRetries >= 1
    /\ Len(requests) = client.maxRetries + 1

\* C2: the first response with a status in [400,500) other than 429 ends the
\* call: doRequest has returned an APIError with that status, and the
\* requests sent are the earlier failed attempts plus this one, whatever
\* budget remains.
C2_TerminalStatusEndsCall ==
    TerminalResponse(last) =>
        /\ pc = "done"
        /\ IsAPIError(ret)
        /\ ret.status = last.status
        /\ Len(requests) = attempt + 1

C2_Witness ==
    /\ TerminalResponse(last)
    /\ last.status = 400
    /\ attempt >= 1
    /\ attempt < client.maxRetries
    /\ pc = "done"

\* C3: when every attempt of a call with maxRetries = N >= 0 ends in a
\* retryable failure and the context is not cancelled, the call has sent
\* exactly N + 1 requests and returns the error of the last attempt.
C3_ExhaustedReturnsLastError ==
    (pc = "done" /\ client.maxRetries >= 0 /\ ~ctxDone /\ RetryableFailure(last)) =>
        /\ Len(requests) = client.maxRetries + 1
        /\ ret = ErrOf(last)

C3_Witness ==
    /\ pc = "done"
    /\ ~ctxDone
    /\ client.maxRetries >= 2
    /\ RetryableFailure(last)
    /\ mixed
    /\ Len(requests) = client.maxRetries + 1
    /\ ret = ErrOf(last)

\* C4 (as stated): after k failures with status 429 or >= 500, a 2xx
\* response to attempt k + 1 makes the call return success after exactly
\* k + 1 requests.
C4_Original ==
    (SuccessResponse(last) /\ priorStatus) =>
        /\ pc = "done"
        /\ ret = NilErr
        /\ Len(requests) = attempt + 1

\* C4 (amended): after k failures with status 429 or >= 500, a 2xx response
\* to attempt k + 1 ends the call after exactly k + 1 requests; the call
\* returns success when the body is empty or decodes into the result, and
\* the decode error otherwise.
C4_SuccessAfterRetries ==
    (SuccessResponse(last) /\ priorStatus) =>
        /\ pc = "done"
        /\ Len(requests) = attempt + 1
        /\ (last.body \in {"empty", "json"} => ret = NilErr)
        /\ (last.body = "text" => ret = DecodeErr)

C4_Witness ==
    /\ SuccessResponse(last)
    /\ priorStatus
    /\ attempt = 2
    /\ Len(requests) = 3
    /\ pc = "done"
    /\ ret = NilErr

\* C5: a call whose context was cancelled before it began makes at most one
\* send attempt and returns a non-nil cancellation error, for every
\* maxRetries >= 0 and every base wait >= 0.
C5_PreCancelledOneAttempt ==
    (ctxAtEntry /\ client.maxRetries >= 0) =>
        /\ Len(requests) <= 1
        /\ (pc = "done" => (ret # NilErr /\ IsCancellation(ret)))

\* C6: once the context is cancelled, a call that is in its backoff wait
\* starts no further send attempt, for every base wait >= 0.
C6_NoAttemptAfterCancel ==
    [][(pc \in {"select", "blocked"} /\ ctxDone) => pc' # "send"]_vars

\* C7: a call that ends because the context was cancelled returns the
\* cancellation itself, which is neither a NetworkError nor an APIError.
C7_CancellationIsOwnCategory ==
    (pc = "done" /\ IsCancellation(ret)) =>
        /\ ret = CtxErr
        /\ ~IsNetworkError(ret)
        /\ ~IsAPIError(ret)

\* C8: every request carries Authorization exactly when the descriptor is
\* bearer-secret and the secret key is non-empty, and then with the value
\* "Bearer " followed by the secret key.
C8_AuthorizationHeader ==
    \A i \in 1..Len(requests) :
        /\ (headerAuthorization \in DOMAIN requests[i].header)
             <=> (AuthMode(cfg) = "bearer-secret" /\ client.secretKey # "")
        /\ (headerAuthorization \in DOMAIN requests[i].header)
             => requests[i].header[headerAuthorization] = "Bearer " \o client.secretKey

C8_Witness ==
    /\ Len(requests) >= 2
    /\ AuthMode(cfg) = "public-key-only"
    /\ client.secretKey # ""
    /\ headerAuthorization \notin DOMAIN requests[2].header

\* C9: with a non-empty publishable key every request carries both public
\* key headers with the key as value; with an empty one it carries neither.
C9_PublicKeyHeaders ==
    \A i \in 1..Len(requests) :
        IF client.publishableKey # ""
        THEN /\ HeaderGet(requests[i].header, headerPublicAPIKey) = client.publishableKey
             /\ HeaderGet(requests[i].header, headerIntaSendPublicKey) = client.publishableKey
        ELSE /\ headerPublicAPIKey \notin DOMAIN requests[i].header
             /\ headerIntaSendPublicKey \notin DOMAIN requests[i].header

C9_Witness ==
    /\ Len(requests) >= 2
    /\ client.publishableKey # ""
    /\ requests[1].method = "GET"
    /\ HeaderGet(requests[2].header, headerIntaSendPublicKey) = client.publishableKey

\* C10 (as stated): the requests of Wallet.FundMPesa are POST
\* /payment/mpesa-stk-push/ and never carry an Authorization header.
C10_Original ==
    op = "Wallet.FundMPesa" =>
        \A i \in 1..Len(requests) :
            /\ requests[i].method = "POST"
            /\ requests[i].url = client.baseURL \o "/payment/mpesa-stk-push/"
            /\ headerAuthorization \notin DOMAIN requests[i].header

\* C10 (amended): the requests of Wallet.FundMPesa are POST
\* /payment/mpesa-stk-push/ with the bearer-secret auth mode: they carry
\* Authorization "Bearer <secret key>" whenever a secret key is configured,
\* and no Authorization header otherwise.
C10_FundMPesaBearerSecret ==
    op = "Wallet.FundMPesa" =>
        /\ AuthMode(cfg) = "bearer-secret"
        /\ \A i \in 1..Len(requests) :
            /\ requests[i].method = "POST"
            /\ requests[i].url = client.baseURL \o "/payment/mpesa-stk-push/"
            /\ HeaderGet(requests[i].header, headerAuthorization) =
                 (IF client.secretKey # "" THEN "Bearer " \o client.secretKey ELSE "")

C10_Witness ==
    /\ op = "Wallet.FundMPesa"
    /\ client.secretKey # ""
    /\ Len(requests) >= 1
    /\ HeaderGet(requests[1].header, headerAuthorization) = "Bearer " \o client.secretKey

\* the wire contract table: method, path and auth mode of each operation
WireTable(o) ==
    CASE o \in {"Collection.Charge", "Checkout.Create", "Wallet.FundCheckout"} ->
           [method |-> "POST", path |-> "/checkout/", auth |-> "public-key-only"]
      [] o \in {"Collection.Status", "Checkout.CheckStatus"} ->
           [method |-> "POST", path |-> "/payment/status/", auth |-> "public-key-only"]
      [] o = "Collection.MPesaSTKPush" ->
           [method |-> "POST", path |-> "/payment/mpesa-stk-push/", auth |-> "bearer-secret"]
      [] o \in {"Payout.Initiate", "Payout.MPesa", "Payout.MPesaB2B", "Payout.Bank",
                "Payout.IntaSend", "Payout.Airtime"} ->
           [method |-> "POST", path |-> "/send-money/initiate/", auth |-> "bearer-secret"]
      [] o = "Payout.Approve" ->
           [method |-> "POST", path |-> "/send-money/approve/", auth |-> "bearer-secret"]
      [] o = "Payout.Status" ->
           [method |-> "POST", path |-> "/send-money/status/", auth |-> "bearer-secret"]
      [] o = "Wallet.List" ->
           [method |-> "GET", path |-> "/wallets/", auth |-> "bearer-secret"]
      [] o = "Wallet.Create" ->
           [method |-> "POST", path |-> "/wallets/", auth |-> "bearer-secret"]
      [] o = "Wallet.Get" ->
           [method |-> "GET", path |-> "/wallets/" \o arg \o "/", auth |-> "bearer-secret"]
      [] o = "Wallet.Transactions" ->
           [method |-> "GET", path |-> "/wallets/" \o arg \o "/transactions/",
            auth |-> "bearer-secret"]
      [] o = "Wallet.IntraTransfer" ->
           [method |-> "POST", path |-> "/wallets/" \o arg \o "/intra_transfer/",
            auth |-> "bearer-secret"]
      [] o = "Refund.List" ->
           [method |-> "GET", path |-> "/chargebacks/", auth |-> "bearer-secret"]
      [] o = "Refund.Create" ->
           [method |-> "POST", path |-> "/chargebacks/", auth |-> "bearer-secret"]
      [] o = "Refund.Get" ->
           [method |-> "GET", path |-> "/chargebacks/" \o arg \o "/", auth |-> "bearer-secret"]
      [] o = "PaymentLink.List" ->
           [method |-> "GET", path |-> "/paymentlinks/", auth |-> "bearer-secret"]
      [] o = "PaymentLink.Create" ->
           [method |-> "POST", path |-> "/paymentlinks/", auth |-> "bearer-secret"]
      [] o = "PaymentLink.Get" ->
           [method |-> "GET", path |-> "/paymentlinks/" \o arg \o "/", auth |-> "bearer-secret"]

\* C11: every request of a resource operation other than Wallet.FundMPesa
\* has the method and the path of the operation's row of the wire contract
\* table, and the row's auth mode: bearer-secret requests carry
\* Authorization "Bearer <secret key>" when a secret key is configured,
\* public-key-only requests never carry Authorization.
C11_WireContract ==
    op # "Wallet.FundMPesa" =>
        \A i \in 1..Len(requests) :
            /\ requests[i].method = WireTable(op).method
            /\ requests[i].url = client.baseURL \o WireTable(op).path
            /\ IF WireTable(op).auth = "bearer-secret"
               THEN HeaderGet(requests[i].header, headerAuthorization) =
                      (IF client.secretKey # "" THEN "Bearer " \o client.secretKey ELSE "")
               ELSE headerAuthorization \notin DOMAIN requests[i].header

C11_Witness ==
    /\ op = "Payout.Status"
    /\ client.secretKey # ""
    /\ Len(requests) = 2
    /\ requests[2].method = "POST"
    /\ requests[2].url = client.baseURL \o "/send-money/status/"
    /\ requests[2].header[headerAuthorization] = "Bearer " \o client.secretKey

\* the options of the list given to New that name an endpoint
Overrides ==
    {i \in 1..Len(opts) : opts[i].name \in {"WithBaseURL", "WithSandbox", "WithProduction"}}

\* the key given last under option `name`, the empty key without one
KeyGiven(name) ==
    LET I == {i \in 1..Len(opts) : opts[i].name = name}
    IN  IF I = {} THEN <<>> ELSE opts[CHOOSE i \in I : \A j \in I : j <= i].value

\* the key starts with family_env
Starts(k, family, env) == Len(k) >= 2 /\ k[1] = family /\ k[2] = env

\* the endpoint the priority order gives, "" when no prefix is recognized
PriorityEndpoint ==
    IF Starts(KeyGiven("WithPublishableKey"), "ISPubKey_", "test")
    THEN "https://sandbox.intasend.com/api/v1"
    ELSE IF Starts(KeyGiven("WithPublishableKey"), "ISPubKey_", "live")
    THEN "https://payment.intasend.com/api/v1"
    ELSE IF Starts(KeyGiven("WithSecretKey"), "ISSecretKey_", "test")
    THEN "https://sandbox.intasend.com/api/v1"
    ELSE IF Starts(KeyGiven("WithSecretKey"), "ISSecretKey_", "live")
    THEN "https://payment.intasend.com/api/v1"
    ELSE ""

BothKeysEmpty == KeyGiven("WithPublishableKey") = <<>> /\ KeyGiven("WithSecretKey") = <<>>

\* C12: without an endpoint override, New gives the client the endpoint of
\* the priority order publishable test, publishable live, secret test,
\* secret live; IsSandbox is true exactly for the sandbox endpoint and
\* IsProduction exactly for the production endpoint.
C12_EnvironmentPriority ==
    pc = "constructed" =>
        /\ (Overrides = {} /\ PriorityEndpoint # "") =>
             /\ newRes.err = "nil"
             /\ newRes.client.baseURL = PriorityEndpoint
        /\ newRes.err = "nil" =>
             /\ IsSandbox(newRes.client)
                  <=> newRes.client.baseURL = "https://sandbox.intasend.com/api/v1"
             /\ IsProduction(newRes.client)
                  <=> newRes.client.baseURL = "https://payment.intasend.com/api/v1"

\* both keys given with different environments: the publishable key decides
C12_Witness ==
    /\ pc = "constructed"
    /\ Overrides = {}
    /\ Starts(KeyGiven("WithPublishableKey"), "ISPubKey_", "live")
    /\ Starts(KeyGiven("WithSecretKey"), "ISSecretKey_", "test")
    /\ newRes.err = "nil"
    /\ IsProduction(newRes.client)
    /\ ~IsSandbox(newRes.client)

\* the endpoint of the override given last
LastOverride == opts[CHOOSE i \in Overrides : \A j \in Overrides : j <= i].value

C14_ConfigurationErrors ==
    pc = "constructed" =>
        /\ BothKeysEmpty =>
             /\ newRes.err = "intasend: at least one API key must be provided"
             /\ newRes.client = NilClient
        /\ (~BothKeysEmpty /\ PriorityEndpoint = "" /\ Overrides = {}) =>
             /\ newRes.err = "intasend: could not determine environment from keys"
             /\ newRes.client = NilClient

C14_Witness ==
    /\ pc = "constructed"
    /\ KeyGiven("WithPublishableKey") = <<"INVALID_KEY">>
    /\ KeyGiven("WithSecretKey") = <<"ISPubKey_", "test", "_abc123">>
    /\ Overrides = {}
    /\ newRes.err = "intasend: could not determine environment from keys"
    /\ newRes.client = NilClient

\* C15: a non-2xx response whose body does not parse as the error shape
\* gives an APIError whose Message is the raw body text and whose
\* HTTPStatusCode is the response status; a non-empty body gives a non-empty
\* message.  The error is the one returned for a terminal status and the one
\* recorded as lastErr otherwise, which an undisturbed call returns at the
\* end of its budget.
C15_RawBodyIsMessage ==
    (last.kind = "resp" /\ (last.status < 200 \/ last.status >= 300)
       /\ ~ErrorShapeParses(last.body)) =>
        LET e == IF TerminalResponse(last) THEN ret ELSE lastErr
        IN  /\ IsAPIError(e)
            /\ e.msg = RawText(last.body)
            /\ e.status = last.status
            /\ (last.body # "empty" => e.msg # "")
            /\ (pc = "done" /\ ~ctxDone) => ret = e

C15_Witness ==
    /\ pc = "done"
    /\ last.kind = "resp"
    /\ last.status = 400
    /\ last.body = "text"
    /\ IsAPIError(ret)
    /\ ret.msg = "plain text error"
    /\ ret.status = 400

\* C16: a 2xx response with a non-empty body that does not decode into the
\* result ends the call with that response: doRequest has returned an error
\* that is neither an APIError nor a NetworkError, and the requests sent are
\* the ones up to this attempt, whatever budget remains.
C16_DecodeFailureIsTerminal ==
    (last.kind = "resp" /\ last.status >= 200 /\ last.status < 300
       /\ last.body = "text" /\ cfg.result) =>
        /\ pc = "done"
        /\ ret = DecodeErr
        /\ ~IsAPIError(ret)
        /\ ~IsNetworkError(ret)
        /\ Len(requests) = attempt + 1

C16_Witness ==
    /\ last.kind = "resp"
    /\ last.status = 201
    /\ last.body = "text"
    /\ attempt = 1
    /\ client.maxRetries = 2
    /\ pc = "done"
    /\ ret.kind = "decode"
    /\ Len(requests) = 2

\* an attempt that failed in Do or in ReadAll
TransportFailure(o) == o.kind \in {"senderr", "readerr"}

\* C17: a send failure or a body-read failure is recorded as a NetworkError
\* that unwraps to the cause; while budget remains and the context is not
\* cancelled the call goes on to the next attempt, and when the failure was
\* on the last attempt of the budget the call returns that NetworkError
\* after maxRetries + 1 requests.
C17_TransportFailureRetried ==
    TransportFailure(last) =>
        /\ IsNetworkError(lastErr)
        /\ Unwrap(lastErr) = last.cause
        /\ (attempt <= client.maxRetries /\ ~ctxDone) =>
             /\ pc \in {"select", "blocked", "send", "inflight"}
             /\ Len(requests) \in {attempt, attempt + 1}
        /\ attempt > client.maxRetries =>
             /\ pc = "done"
             /\ Len(requests) = client.maxRetries + 1
             /\ IsNetworkError(ret)
             /\ Unwrap(ret) = last.cause

C17_Witness ==
    /\ pc = "done"
    /\ ~ctxDone
    /\ client.maxRetries = 2
    /\ last.kind = "readerr"
    /\ Len(requests) = 3
    /\ ret = NetworkError("io", "failed to read response")

C19_PayloadSerializedOnce ==
    pc # "start" =>
        /\ bodyBytes = (IF cfg.body
                        THEN <<"json", op, "v1">> \o OmitEmpty(FieldName(op), optional)
                        ELSE <<>>)
        /\ \A i \in 1..Len(requests) :
            /\ requests[i].body = bodyBytes
            /\ requests[i].body = requests[1].body

C19_Witness ==
    /\ op = "Wallet.Create"
    /\ reqValue = "v2"
    /\ Len(requests) = 3
    /\ requests[1].body = <<"json", "Wallet.Create", "v1", "wallet_type", "WORKING">>
    /\ requests[3].body = <<"json", "Wallet.Create", "v1", "wallet_type", "WORKING">>

\* call i run alone
Alone(i) ==
    RunAlone(OpConfig(calls.local[i].op),
             Marshal(calls.local[i].op, OpConfig(calls.local[i].op)),
             calls.local[i].script, 0, NilErr, <<>>)

\* C20: in every interleaving of two calls on one client, each call's
\* payload is the serialization of its own request, its attempt counter
\* counts its own requests, its lastErr is the error of its own latest
\* failed attempt, the requests it has sent are the first requests of the
\* same call run alone, and when it has returned it has sent the same
\* requests and returns the same result as run alone.
C20_CallsAreIndependent ==
    \A i \in CallIds :
        LET me == calls.local[i]
        IN  /\ me.pc # "start" => me.bodyBytes = Marshal(me.op, OpConfig(me.op))
            /\ Len(me.requests) \in {me.attempt, me.attempt + 1}
            /\ Len(me.requests) <= Len(Alone(i).requests)
            /\ me.requests = SubSeq(Alone(i).requests, 1, Len(me.requests))
            /\ (me.attempt >= 1 /\ me.pc \in {"select", "send", "inflight"}) =>
                 calls.lastErr[i] = Classify(OpConfig(me.op), me.script[me.attempt]).err
            /\ me.pc = "done" =>
                 /\ me.requests = Alone(i).requests
                 /\ me.ret = Alone(i).ret

\* call 1 has returned the error of its own second attempt while call 2,
\* with another request and other answers, is between its attempts
C20_Witness ==
    /\ calls.local[1].pc = "done"
    /\ calls.local[1].op = "Wallet.Create"
    /\ calls.local[1].script = <<Response(500, "text"), SendFailure("io")>>
    /\ calls.local[1].ret = NetworkError("io", "request failed")
    /\ Len(calls.local[1].requests) = 2
    /\ calls.local[2].pc = "select"
    /\ calls.local[2].op = "Wallet.List"
    /\ calls.lastErr[2] = APIError(429, "json")

\* C21: no step of an operation or of doRequest changes a field of the
\* Client: publishable key, secret key, base endpoint, retry count, base
\* wait, user agent and debug flag stay as New set them.
C21_ClientIsImmutable == [][client' = client]_vars

C21_Witness ==
    /\ pc = "done"
    /\ op = "Wallet.Create"
    /\ client.maxRetries = 2
    /\ client.retryWait = 1
    /\ client.debug
    /\ Len(requests) = 3

\* C25: a response with a status below 200 is recorded as an APIError with
\* that status; while budget remains and the context is not cancelled the
\* call goes on to the next attempt, and the call returns that error exactly
\* when the response was the one of the last attempt of the budget.
C25_Below200IsRetryable ==
    (last.kind = "resp" /\ last.status < 200) =>
        /\ IsAPIError(lastErr)
        /\ lastErr.status = last.status
        /\ (attempt <= client.maxRetries /\ ~ctxDone) =>
             pc \in {"select", "blocked", "send", "inflight"}
        /\ attempt > client.maxRetries =>
             /\ pc = "done"
             /\ ret = lastErr
             /\ Len(requests) = client.maxRetries + 1
        /\ (pc = "done" /\ attempt <= client.maxRetries) => ~IsAPIError(ret)

C25_Witness ==
    /\ last.kind = "resp"
    /\ last.status = 100
    /\ client.maxRetries = 1
    /\ pc = "done"
    /\ Len(requests) = 2
    /\ IsAPIError(ret)
    /\ ret.status = 100

\* C23: every request of Wallet.Create carries wallet_type WORKING when the
\* caller's WalletType was empty, and the caller's WalletType when it was
\* not.
C23_WalletTypeDefault ==
    op = "Wallet.Create" =>
        \A i \in 1..Len(requests) :
            /\ Len(requests[i].body) = 5
            /\ requests[i].body[4] = "wallet_type"
            /\ requests[i].body[5] =
                 (IF optionalAtCall = "" THEN "WORKING" ELSE optionalAtCall)

C23_Witness ==
    /\ op = "Wallet.Create"
    /\ optionalAtCall = ""
    /\ Len(requests) = 2
    /\ requests[2].body[4] = "wallet_type"
    /\ requests[2].body[5] = "WORKING"

\* C24: every request of a payout initiation whose RequiresApproval was
\* empty carries a requires_approval field with a default value.
C24_ApprovalDefault ==
    (op \in {"Payout.Initiate", "Payout.MPesa", "Payout.MPesaB2B", "Payout.Bank",
             "Payout.IntaSend", "Payout.Airtime"} /\ optionalAtCall = "") =>
        \A i \in 1..Len(requests) :
            /\ requests[i].url = client.baseURL \o "/send-money/initiate/"
            /\ Len(requests[i].body) = 5
            /\ requests[i].body[4] = "requires_approval"
            /\ requests[i].body[5] # ""

\* C27: doRequest returns nil only when an attempt of the call received a
\* response with a status in [200,300).
C27_NilOnlyAfterSuccess ==
    (pc = "done" /\ ret = NilErr) =>
        /\ Len(requests) >= 1
        /\ last.kind = "resp"
        /\ last.status >= 200
        /\ last.status < 300

\* C28: when the operation has returned, the optional field of the caller's
\* request object is what it was when the operation was called.
C28_RequestUnmodified ==
    pc = "done" => optional = optionalAtCall

\* C22: for every APIError, IsNotFound holds exactly for status 404,
\* IsAuthenticationError exactly for 401 and 403, IsRateLimited exactly for
\* 429, and IsValidationError exactly for 400 with a non-empty field-error
\* map.
C22_ErrorPredicates ==
    (pc = "answered" /\ answer.kind = "predicates") =>
        /\ answer.IsNotFound <=> probe.status = 404
        /\ answer.IsAuthenticationError <=> probe.status \in {401, 403}
        /\ answer.IsRateLimited <=> probe.status = 429
        /\ answer.IsValidationError <=> (probe.status = 400 /\ probe.errors >= 1)

C22_Witness ==
    /\ pc = "answered"
    /\ probe.kind = "apierr"
    /\ probe.status = 403
    /\ probe.errors = 1
    /\ answer.IsAuthenticationError
    /\ ~answer.IsValidationError
    /\ ~answer.IsNotFound

\* C29: the wait computed in int64 before retry attempt n is not negative
\* and not shorter than the wait before attempt n - 1.
C29_BackoffMonotonic ==
    (pc = "answered" /\ answer.kind = "waits") =>
        /\ ~IsNegative(answer.wait)
        /\ ~Less(answer.wait, answer.previous)

\* C26: the same call with the same server answers, once with the debug flag
\* and once without: at every moment one of the two has sent a first part of
\* the requests of the other, and when both have returned they have sent the
\* same requests and return the same result or error; only the call with
\* the flag writes log lines.
C26_DebugChangesNothing ==
    LET on == calls.local[1]
        off == calls.local[2]
        k == IF Len(on.requests) <= Len(off.requests)
             THEN Len(on.requests) ELSE Len(off.requests)
    IN  (on.debug /\ ~off.debug /\ on.op = off.op /\ on.script = off.script) =>
            /\ SubSeq(on.requests, 1, k) = SubSeq(off.requests, 1, k)
            /\ (on.attempt = off.attempt /\ on.pc = off.pc) =>
                 calls.lastErr[1] = calls.lastErr[2]
            /\ (on.pc = "done" /\ off.pc = "done") =>
                 /\ on.requests = off.requests
                 /\ on.ret = off.ret
                 /\ on.attempt = off.attempt
            /\ off.logs = 0

C26_Witness ==
    /\ calls.local[1].debug
    /\ ~calls.local[2].debug
    /\ calls.local[1].pc = "done"
    /\ calls.local[2].pc = "done"
    /\ calls.local[1].script = <<Response(500, "text"), Response(201, "text")>>
    /\ calls.local[1].logs >= 5
    /\ calls.local[2].logs = 0
    /\ Len(calls.local[2].requests) = 2
    /\ calls.local[1].ret = DecodeErr
    /\ calls.local[2].ret = DecodeErr

\* C30: when every send completes or fails and every timer expires, every
\* call returns; and a call never has more requests out than attempts
\* counted, so no iteration runs without consuming an attempt.
C30_EventuallyReturns ==
    /\ <>(pc = "done")
    /\ [](Len(requests) <= attempt + 1)

C30_Witness ==
    /\ pc = "done"
    /\ ~ctxDone
    /\ client.maxRetries = 2
    /\ client.retryWait = 1
    /\ attempt = 3
    /\ Len(requests) = 3
    /\ waitTime = 2

====
